---- MODULE Spec2Model ----
(***************************************************************************)
(* The p2p core of the node: Context (p2p/src/p2p.rs) with its table of    *)
(* command multiplexers and its ConnectionCounter, the P2P::run            *)
(* orchestration, and the outbound Connect future (p2p/src/net/connect.rs).*)
(*                                                                         *)
(* Scheduling.  Every closure of p2p.rs is handed to the reactor with      *)
(* Remote::spawn (p2p.rs:84-97, 102-146; the CpuPool is stored as _pool    *)
(* and never used, see the TODOs at p2p.rs:88 and p2p.rs:106), and the     *)
(* command handlers and response callbacks are called from the connection  *)
(* futures that run on that reactor.  A closure, handler or callback       *)
(* therefore runs to completion before the next one starts: one action of  *)
(* this model is one such run, and the interleavings are those of whole    *)
(* closures, handlers and callbacks.                                       *)
(*                                                                         *)
(* Locks.  What a thread holds while it is inside one operation does not   *)
(* show at that grain.  SpecLocks cuts close, the two registrations and    *)
(* on_handshake where a lock is taken or dropped and lets several threads  *)
(* run them against one table and one counter.                             *)
(***************************************************************************)
EXTENDS Integers, Sequences, FiniteSets, TLC

\* ------------------------------------------------------------------ bounds
NumAddrs == 2
MaxPeers == 2
MaxAccepts == 1
MaxCap == 1
NumPeerIds == 2
NumThreads == 2

Addrs == 1..NumAddrs
PeerIds == 1..NumPeerIds
Caps == 0..MaxCap

\* ------------------------------------------------------- network identity
MAINNET_NETWORK_ID ==
    <<18, 48, 241, 113, 97, 4, 65, 97, 23, 49, 0, 130, 22, 161, 161, 16>>

TESTNET_NETWORK_ID ==
    <<18, 48, 241, 113, 97, 4, 65, 97, 23, 49, 0, 130, 22, 161, 161, 17>>

Networks == {"Mainnet", "Testnet"}

Network_id(network) ==
    IF network = "Mainnet" THEN MAINNET_NETWORK_ID ELSE TESTNET_NETWORK_ID

NetworkIds == {Network_id(n) : n \in Networks}

Network_listen_port(network) == IF network = "Mainnet" THEN 18080 ELSE 28080

\* ------------------------------------------------------------------ state
VARIABLES
    config,              \* Context.config: network, peer_id, hide_my_port,
                         \* in_peers, out_peers, peers
    command_streams,     \* Context.command_streams: HashMap addr -> Commands
    connection_counter,  \* Context.connection_counter
    commands,            \* the Commands objects created so far, by identity
    reactor,             \* closures handed to Remote::spawn, not yet run
    started,             \* P2P::run has been called
    listening,           \* the TcpServer future is running
    local_sync_node,     \* the calls of new_sync_connection, in order
    peerlist,            \* Context.peerlist: the addresses it holds
    panicked,            \* a handler or callback has panicked
    effects,             \* per Commands object: what the close path did to it
    last                 \* the outcome of the handler or callback run last

ctxVars == <<config, command_streams, connection_counter, commands, reactor,
             started, listening, local_sync_node, peerlist, panicked, effects,
             last>>

\* The Connect future of net/connect.rs.
VARIABLES
    connect_state,       \* Connect.state, by the name of the ConnectState
    connect_wire,        \* inner futures that have completed, not yet polled
    connect_outcome,     \* what poll returned last
    connect_received,    \* the handshake response poll has taken off the wire
    connect_visited      \* the states the future has been in, in order

\* The Context at the grain of its lock scopes: what each thread that shares
\* the Context is doing, the locks it holds, and the two structures.
VARIABLES lk_threads, lk_held, lk_table, lk_counted

lockVars == <<lk_threads, lk_held, lk_table, lk_counted>>

\* The varint codec (varint/src/lib.rs): the number being encoded, the bytes
\* written, what length says and what read returns.
VARIABLES vi_pc, vi_number, vi_bytes, vi_length, vi_result

varintVars == <<vi_pc, vi_number, vi_bytes, vi_length, vi_result>>

\* proof_of_work_is_valid (pow-verification/src/pow_verification.rs): the
\* hash and difficulty it is called with and what it returns.
VARIABLES pw_pc, pw_input, pw_valid

powVars == <<pw_pc, pw_input, pw_valid>>

pureVars == <<varintVars, powVars>>

connectVars == <<connect_state, connect_wire, connect_outcome, connect_received,
                 connect_visited>>

\* A bundle of the mutable state a handler works on, so that handlers compose.
World ==
    [command_streams |-> command_streams,
     connection_counter |-> connection_counter,
     commands |-> commands,
     local_sync_node |-> local_sync_node,
     peerlist |-> peerlist,
     effects |-> effects]

Commit(w) ==
    /\ command_streams' = w.command_streams
    /\ connection_counter' = w.connection_counter
    /\ commands' = w.commands
    /\ local_sync_node' = w.local_sync_node
    /\ peerlist' = w.peerlist
    /\ effects' = w.effects

\* HashMap::insert and HashMap::remove on a map held as a function.
MapInsert(m, k, v) == [a \in (DOMAIN m) \cup {k} |-> IF a = k THEN v ELSE m[a]]

MapRemove(m, k) == [a \in (DOMAIN m) \ {k} |-> m[a]]

EmptyMap == [a \in {} |-> a]

\* ------------------------------------------------------ ConnectionCounter
\* net/connection_counter.rs is not among the sources: modelled from the
\* description of its operations.
ConnectionCounter_new(max_inbound, max_outbound) ==
    [connections |-> EmptyMap,
     current_inbound_connections |-> 0,
     current_outbound_connections |-> 0,
     max_inbound_connections |-> max_inbound,
     max_outbound_connections |-> max_outbound]

note_new_outbound_connection(cc, addr) ==
    [cc EXCEPT !.connections = MapInsert(@, addr, "Outbound"),
               !.current_outbound_connections = @ + 1]

note_new_inbound_connection(cc, addr) ==
    [cc EXCEPT !.connections = MapInsert(@, addr, "Inbound"),
               !.current_inbound_connections = @ + 1]

note_close_connection(cc, addr) ==
    IF addr \notin DOMAIN cc.connections
    THEN cc
    ELSE IF cc.connections[addr] = "Inbound"
         THEN [cc EXCEPT !.connections = MapRemove(@, addr),
                         !.current_inbound_connections = @ - 1]
         ELSE [cc EXCEPT !.connections = MapRemove(@, addr),
                         !.current_outbound_connections = @ - 1]

connection_type(cc, addr) ==
    IF addr \in DOMAIN cc.connections THEN cc.connections[addr] ELSE "None"

\* ---------------------------------------------------------------- Commands
\* levin::net::Commands is not among the sources: modelled from the
\* description of the multiplexer.  A Commands object is known by its index
\* in `commands`; the record also carries the connection it serves.
Commands_new(addr, direction, transport) ==
    [addr |-> addr, direction |-> direction, transport |-> transport,
     shutdown |-> FALSE, pending |-> {}]

NoEffects ==
    [entered |-> FALSE, removed |-> 0, shutdown |-> 0, released |-> 0,
     called |-> 0]

Allocate(w, addr, direction, transport) ==
    [w EXCEPT !.commands = Append(@, Commands_new(addr, direction, transport)),
              !.effects = Append(@, NoEffects)]

Commands_invoke(w, c, kind) ==
    IF w.commands[c].shutdown
    THEN w
    ELSE [w EXCEPT !.commands[c].pending = @ \cup {kind}]

Commands_shutdown(w, c) ==
    [w EXCEPT !.commands[c].shutdown = TRUE,
              !.commands[c].pending = {},
              !.effects[c].shutdown = @ + 1]

\* The read side hands a response to the callback registered for it, once.
Commands_take(w, c, kind) ==
    [w EXCEPT !.commands[c].pending = @ \ {kind}]

\* A multiplexer that keeps the callback registered after it has run.
Commands_deliver_keeps_callback(w, c, kind) ==
    [w |-> w,
     called |-> ~w.commands[c].shutdown /\ kind \in w.commands[c].pending]

\* A response of the given kind comes off the wire: the callback waiting
\* for it is taken out and called; with none waiting, or after shutdown,
\* the response is dropped.
Commands_deliver(w, c, kind) ==
    IF ~w.commands[c].shutdown /\ kind \in w.commands[c].pending
    THEN [w |-> Commands_take(w, c, kind), called |-> TRUE]
    ELSE [w |-> w, called |-> FALSE]

\* ---------------------------------------------------------------- Peerlist
\* The Peerlist is not among the sources: modelled from its description as
\* the set of addresses it holds.  p2p.rs only creates it and reads it.
Peerlist_new == {}

stl_peerlist(list) == list

\* ----------------------------------------------------------------- Context
\* Context::close without its call of note_close_connection.
Context_close_keeps_slot(w, addr) ==
    IF addr \in DOMAIN w.command_streams
    THEN LET c == w.command_streams[addr]
             w1 == [w EXCEPT !.command_streams = MapRemove(@, addr),
                             !.effects[c].removed = @ + 1]
         IN Commands_shutdown(w1, c)
    ELSE w

\* Context::close emptying the table instead of removing the one address.
Context_close_clears_table(w, addr) ==
    IF addr \in DOMAIN w.command_streams
    THEN LET c == w.command_streams[addr]
             w1 == [w EXCEPT !.command_streams = EmptyMap,
                             !.effects[c].removed = @ + 1]
             w2 == Commands_shutdown(w1, c)
         IN [w2 EXCEPT !.connection_counter = note_close_connection(@, addr)]
    ELSE w

Context_close(w, addr) ==
    IF addr \in DOMAIN w.command_streams
    THEN LET c == w.command_streams[addr]
             w1 == [w EXCEPT !.command_streams = MapRemove(@, addr),
                             !.effects[c].removed = @ + 1]
             w2 == Commands_shutdown(w1, c)
             counted == addr \in DOMAIN w2.connection_counter.connections
         IN [w2 EXCEPT !.connection_counter = note_close_connection(@, addr),
                       !.effects[c].released = @ + (IF counted THEN 1 ELSE 0)]
    ELSE w

\* The closure Context::connect hands to the reactor, up to levin_connect.
Context_connect(w, addr) ==
    LET c == Len(w.commands) + 1
        w1 == Allocate(w, addr, "Outbound", "dialing")
        w2 == Commands_invoke(w1, c, "Handshake")
        w3 == [w2 EXCEPT !.command_streams = MapInsert(@, addr, c)]
    IN [w3 EXCEPT !.connection_counter = note_new_outbound_connection(@, addr)]

ConnectionHandler_on_connect(w, addr, c) ==
    LET w1 == [w EXCEPT !.command_streams = MapInsert(@, addr, c)]
    IN [w1 EXCEPT !.connection_counter = note_new_inbound_connection(@, addr)]

Context_basic_node_data ==
    [network_id |-> Network_id(config.network),
     my_port |-> IF config.hide_my_port
                 THEN 0
                 ELSE Network_listen_port(config.network),
     peer_id |-> config.peer_id]

\* on_handshake without its arm for Some(Direction::Outbound).
Context_on_handshake_skips_direction(w, addr, request) ==
    IF request.node_data.network_id # Network_id(config.network)
    THEN [w |-> Context_close(w, addr), ret |-> "None"]
    ELSE IF connection_type(w.connection_counter, addr) = "None"
    THEN [w |-> w, ret |-> "panic"]
    ELSE IF /\ config.peer_id # request.node_data.peer_id
            /\ request.node_data.my_port # 0
    THEN [w |-> w, ret |-> "panic"]
    ELSE IF addr \notin DOMAIN w.command_streams
    THEN [w |-> w, ret |-> "panic"]
    ELSE [w |-> Commands_invoke(w, w.command_streams[addr],
                                "RequestSupportFlags"),
          ret |-> "Some",
          response |-> [node_data |-> Context_basic_node_data]]

\* on_handshake returning None on a foreign network id without closing.
Context_on_handshake_keeps_foreign(w, addr, request) ==
    IF request.node_data.network_id # Network_id(config.network)
    THEN [w |-> w, ret |-> "None"]
    ELSE LET t == connection_type(w.connection_counter, addr) IN
         IF t = "Outbound"
         THEN [w |-> Context_close(w, addr), ret |-> "None"]
         ELSE IF t = "None" \/ addr \notin DOMAIN w.command_streams
         THEN [w |-> w, ret |-> "panic"]
         ELSE IF /\ config.peer_id # request.node_data.peer_id
                 /\ request.node_data.my_port # 0
         THEN [w |-> w, ret |-> "panic"]
         ELSE [w |-> Commands_invoke(w, w.command_streams[addr],
                                     "RequestSupportFlags"),
               ret |-> "Some",
               response |-> [node_data |-> Context_basic_node_data]]

\* on_handshake consulting the recorded direction before the network id.
Context_on_handshake_direction_first(w, addr, request) ==
    LET t == connection_type(w.connection_counter, addr) IN
    IF t = "Outbound"
    THEN [w |-> Context_close(w, addr), ret |-> "None"]
    ELSE IF t = "None"
    THEN [w |-> w, ret |-> "panic"]
    ELSE IF request.node_data.network_id # Network_id(config.network)
    THEN [w |-> Context_close(w, addr), ret |-> "None"]
    ELSE IF /\ config.peer_id # request.node_data.peer_id
            /\ request.node_data.my_port # 0
    THEN [w |-> w, ret |-> "panic"]
    ELSE IF addr \notin DOMAIN w.command_streams
    THEN [w |-> w, ret |-> "panic"]
    ELSE [w |-> Commands_invoke(w, w.command_streams[addr],
                                "RequestSupportFlags"),
          ret |-> "Some",
          response |-> [node_data |-> Context_basic_node_data]]

\* The result is the world after the call and what the call returned:
\* "None", "Some" (with the response) or "panic".
Context_on_handshake(w, addr, request) ==
    IF request.node_data.network_id # Network_id(config.network)
    THEN [w |-> Context_close(w, addr), ret |-> "None"]
    ELSE LET t == connection_type(w.connection_counter, addr) IN
         IF t = "Outbound"
         THEN [w |-> Context_close(w, addr), ret |-> "None"]
         ELSE IF t = "None"
         THEN [w |-> w, ret |-> "panic"]
         ELSE IF /\ config.peer_id # request.node_data.peer_id
                 /\ request.node_data.my_port # 0
         THEN [w |-> w, ret |-> "panic"]
         ELSE IF addr \notin DOMAIN w.command_streams
         THEN [w |-> w, ret |-> "panic"]
         ELSE [w |-> Commands_invoke(w, w.command_streams[addr],
                                     "RequestSupportFlags"),
               ret |-> "Some",
               response |-> [node_data |-> Context_basic_node_data]]

\* A Section off the wire either decodes to the message it carries or is
\* malformed; from_section gives Ok(message) or Err.
Malformed == [valid |-> FALSE]

from_section(section) ==
    IF section.valid THEN [ok |-> TRUE, value |-> section] ELSE [ok |-> FALSE]

\* The Handshake entry of the handler table.
Handshake_invokation(w, addr, section) ==
    LET r == from_section(section) IN
    IF ~r.ok
    THEN [w |-> w, ret |-> "Err"]
    ELSE Context_on_handshake(w, addr, r.value)

\* The response callback Context::connect registers with the Handshake
\* invocation.
Handshake_callback(w, addr, c, section) ==
    LET r == from_section(section) IN
    IF ~r.ok
    THEN [w |-> w, ret |-> "panic"]
    ELSE LET response == r.value
             w1 == IF response.node_data.peer_id = config.peer_id
                   THEN Context_close(w, addr)
                   ELSE w
         IN [w |-> [w1 EXCEPT !.local_sync_node =
                        Append(@, [peer_id |-> response.node_data.peer_id,
                                   addr |-> addr, cmd |-> c])],
             ret |-> "done"]

\* on_ping, on_request_support_flags and on_timed_sync: what they return.
Context_on_ping == [peer_id |-> config.peer_id]

Context_on_request_support_flags == [support_flags |-> "supported"]

\* on_timed_sync shutting the address down before it answers.
Context_on_timed_sync_closes(w, addr, request) ==
    [w |-> Context_close(w, addr),
     response |-> [local_peerlist |-> stl_peerlist(w.peerlist)]]

Context_on_timed_sync(w, addr, request) ==
    [w |-> w, response |-> [local_peerlist |-> stl_peerlist(w.peerlist)]]

\* The Ping and RequestSupportFlags entries of the handler table do not
\* look at the address or at the payload.
Ping_invokation(w, addr, section) ==
    [w |-> w, ret |-> "Some", response |-> Context_on_ping]

RequestSupportFlags_invokation(w, addr, section) ==
    [w |-> w, ret |-> "Some", response |-> Context_on_request_support_flags]

\* The TimedSync entry of the handler table.
TimedSync_invokation(w, addr, section) ==
    LET r == from_section(section) IN
    IF ~r.ok
    THEN [w |-> w, ret |-> "Err"]
    ELSE LET res == Context_on_timed_sync(w, addr, r.value)
         IN [w |-> res.w, ret |-> "Some", response |-> res.response]

\* ------------------------------------------------------- what peers send
Ports == {0, Network_listen_port("Mainnet")}

\* The Handshake request Context::connect of another node of the same
\* network builds from its basic_node_data.
PeerHandshakeRequest(peer_id, hide_my_port) ==
    [valid |-> TRUE,
     node_data |-> [network_id |-> Network_id(config.network),
                    peer_id |-> peer_id,
                    my_port |-> IF hide_my_port
                                THEN 0
                                ELSE Network_listen_port(config.network)]]

NodeData == [network_id : NetworkIds, peer_id : PeerIds, my_port : Ports]

\* Handshake requests as they arrive, malformed ones included.
Sections == {Malformed} \cup {[valid |-> TRUE, node_data |-> d] : d \in NodeData}

RECURSIVE SeqsUpTo(_, _)
SeqsUpTo(S, n) ==
    IF n = 0
    THEN {<<>>}
    ELSE LET shorter == SeqsUpTo(S, n - 1)
         IN shorter \cup {Append(q, x) : q \in {r \in shorter : Len(r) = n - 1},
                                         x \in S}

\* Peer ids and networks are interchangeable: the node is taken to run on
\* mainnet under the least peer id, and its peers range over all of both.
LocalPeerId == CHOOSE p \in PeerIds : \A q \in PeerIds : p <= q

\* Addresses are interchangeable too: the first configured peer is taken to
\* be the least address.
FirstAddr == CHOOSE a \in Addrs : \A b \in Addrs : a <= b

PeerLists == {q \in SeqsUpTo(Addrs, MaxPeers) : q = <<>> \/ q[1] = FirstAddr}

\* The peerlist a handshake response advertises: nothing, or one address.
AdvertisedPeerlists == {<<>>, <<FirstAddr>>}

\* Handshake responses as they arrive, malformed ones included.
HandshakeResponses ==
    {Malformed}
    \cup {[valid |-> TRUE, node_data |-> d, local_peerlist |-> l] :
              d \in NodeData, l \in AdvertisedPeerlists}

\* Ping, RequestSupportFlags and TimedSync requests as they arrive.
Requests == {Malformed, [valid |-> TRUE]}

Configs ==
    [network : {"Mainnet"}, peer_id : {LocalPeerId}, hide_my_port : BOOLEAN,
     in_peers : Caps, out_peers : Caps, peers : PeerLists]

\* -------------------------------------------------------------------- Init
InitContext ==
    /\ config \in Configs
    /\ command_streams = EmptyMap
    /\ connection_counter = ConnectionCounter_new(config.in_peers, config.out_peers)
    /\ commands = <<>>
    /\ reactor = <<>>
    /\ started = FALSE
    /\ listening = FALSE
    /\ local_sync_node = <<>>
    /\ peerlist = Peerlist_new
    /\ panicked = FALSE
    /\ effects = <<>>
    /\ last = [op |-> "new"]

\* ----------------------------------------------------------------- actions
Cmds == 1..Len(commands)

Inbound == {c \in Cmds : commands[c].direction = "Inbound"}

\* The connection of c is up and its multiplexer serves it.
Live(c) == commands[c].transport = "open" /\ ~commands[c].shutdown

\* The outcome of a handler or callback: the world it leaves, or a panic of
\* the reactor thread, which leaves what had been done before it.
Finish(r, record) ==
    /\ Commit(r.w)
    /\ panicked' = (r.ret = "panic")
    /\ last' = [record EXCEPT !.ret = r.ret]

\* P2P::run spawning the server whatever hide_my_port says.
P2P_run_always_listens ==
    /\ ~started /\ ~panicked
    /\ started' = TRUE
    /\ reactor' = <<[op |-> "server", addr |-> 0]>>
                  \o [i \in 1..Len(config.peers) |->
                         [op |-> "connect", addr |-> config.peers[i]]]
    /\ last' = [op |-> "run"]
    /\ UNCHANGED <<config, command_streams, connection_counter, commands,
                   listening, local_sync_node, peerlist, panicked, effects>>
    /\ UNCHANGED <<connectVars, lockVars, pureVars>>

P2P_run ==
    /\ ~started /\ ~panicked
    /\ started' = TRUE
    /\ reactor' = (IF ~config.hide_my_port THEN <<[op |-> "server", addr |-> 0]>>
                                          ELSE <<>>)
                  \o [i \in 1..Len(config.peers) |->
                         [op |-> "connect", addr |-> config.peers[i]]]
    /\ last' = [op |-> "run"]
    /\ UNCHANGED <<config, command_streams, connection_counter, commands,
                   listening, local_sync_node, peerlist, panicked, effects>>
    /\ UNCHANGED <<connectVars, lockVars, pureVars>>

\* The reactor runs the closure of Context::spawn_server.
Context_spawn_server ==
    /\ ~panicked
    /\ reactor # <<>> /\ Head(reactor).op = "server"
    /\ reactor' = Tail(reactor)
    /\ listening' = TRUE
    /\ last' = [op |-> "spawn_server"]
    /\ UNCHANGED <<config, command_streams, connection_counter, commands,
                   started, local_sync_node, peerlist, panicked, effects>>
    /\ UNCHANGED <<connectVars, lockVars, pureVars>>

\* The reactor runs the closure of Context::connect.
RunConnect ==
    /\ ~panicked
    /\ reactor # <<>> /\ Head(reactor).op = "connect"
    /\ reactor' = Tail(reactor)
    /\ Commit(Context_connect(World, Head(reactor).addr))
    /\ last' = [op |-> "connect", addr |-> Head(reactor).addr,
                cmd |-> Len(commands) + 1]
    /\ UNCHANGED <<config, started, listening, panicked>>
    /\ UNCHANGED <<connectVars, lockVars, pureVars>>

\* The TcpServer accepts a connection from addr and calls on_connect.  No
\* second connection can come from an address whose connection is still up.
Accept(addr) ==
    /\ ~panicked
    /\ listening
    /\ Cardinality(Inbound) < MaxAccepts
    /\ \A c \in Inbound : commands[c].addr = addr => commands[c].transport # "open"
    /\ LET c == Len(commands) + 1
           w == Allocate(World, addr, "Inbound", "open")
       IN /\ Commit(ConnectionHandler_on_connect(w, addr, c))
          /\ last' = [op |-> "on_connect", addr |-> addr, cmd |-> c]
    /\ UNCHANGED <<config, reactor, started, listening, panicked>>
    /\ UNCHANGED <<connectVars, lockVars, pureVars>>

\* levin_connect: the dial to the address succeeds.
Established(c) ==
    /\ ~panicked
    /\ commands[c].transport = "dialing" /\ ~commands[c].shutdown
    /\ commands' = [commands EXCEPT ![c].transport = "open"]
    /\ last' = [op |-> "established", cmd |-> c]
    /\ UNCHANGED <<config, command_streams, connection_counter, reactor, started,
                   listening, local_sync_node, peerlist, panicked, effects>>
    /\ UNCHANGED <<connectVars, lockVars, pureVars>>

\* The transport of c fails, while dialling or later: the future of
\* levin_connect ends in its map_err, which logs.
TransportError(c) ==
    /\ ~panicked
    /\ commands[c].transport \in {"dialing", "open"} /\ ~commands[c].shutdown
    /\ commands' = [commands EXCEPT ![c].transport = "failed"]
    /\ last' = [op |-> "io_error", cmd |-> c]
    /\ UNCHANGED <<config, command_streams, connection_counter, reactor, started,
                   listening, local_sync_node, peerlist, panicked, effects>>
    /\ UNCHANGED <<connectVars, lockVars, pureVars>>

\* A Handshake request arrives on the connection of c.
ReceiveHandshakeRequest(c, section) ==
    /\ ~panicked
    /\ Live(c)
    /\ LET addr == commands[c].addr
           r == Handshake_invokation(World, addr, section)
           closes == r.ret = "None"
           w == [r.w EXCEPT !.effects[c].entered = @ \/ closes]
       IN Finish([r EXCEPT !.w = w],
                 [op |-> "handshake_request", addr |-> addr, cmd |-> c,
                  section |-> section,
                  direction |-> connection_type(connection_counter, addr),
                  ret |-> ""])
    /\ UNCHANGED <<config, reactor, started, listening>>
    /\ UNCHANGED <<connectVars, lockVars, pureVars>>

\* The response to the Handshake invocation of Context::connect arrives.
ReceiveHandshakeResponse(c, section) ==
    /\ ~panicked
    /\ commands[c].transport = "open"
    /\ LET addr == commands[c].addr
           d == Commands_deliver(World, c, "Handshake")
           r == Handshake_callback(d.w, addr, c, section)
           closes == /\ section.valid
                     /\ section.node_data.peer_id = config.peer_id
           w == [r.w EXCEPT !.effects[c].entered = @ \/ closes,
                            !.effects[c].called = @ + 1]
       IN /\ d.called
          /\ Finish([r EXCEPT !.w = w],
                    [op |-> "handshake_response", addr |-> addr, cmd |-> c,
                     section |-> section, ret |-> ""])
    /\ UNCHANGED <<config, reactor, started, listening>>
    /\ UNCHANGED <<connectVars, lockVars, pureVars>>

\* The response to the RequestSupportFlags invocation of on_handshake
\* arrives: its callback is unimplemented!().
ReceiveSupportFlagsResponse(c) ==
    /\ ~panicked
    /\ commands[c].transport = "open"
    /\ LET d == Commands_deliver(World, c, "RequestSupportFlags")
       IN /\ d.called
          /\ Finish([w |-> d.w, ret |-> "panic"],
                    [op |-> "support_flags_response", cmd |-> c, ret |-> ""])
    /\ UNCHANGED <<config, reactor, started, listening>>
    /\ UNCHANGED <<connectVars, lockVars, pureVars>>

\* A response arrives that the multiplexer has no callback for: no callback
\* is called.
Kinds == {"Handshake", "RequestSupportFlags"}

DropResponse(c, kind) ==
    /\ ~panicked
    /\ commands[c].transport = "open"
    /\ LET d == Commands_deliver(World, c, kind)
       IN /\ ~d.called
          /\ Finish([w |-> d.w, ret |-> "dropped"],
                    [op |-> "response_dropped", kind |-> kind, cmd |-> c,
                     ret |-> ""])
    /\ UNCHANGED <<config, reactor, started, listening>>
    /\ UNCHANGED <<connectVars, lockVars, pureVars>>

\* What a handler entry replied, if it did.
Reply(r) == IF r.ret = "Some" THEN <<r.response>> ELSE <<>>

\* A Ping, RequestSupportFlags or TimedSync request arrives on the
\* connection of c, whose address may be registered or not.
ReceivePing(c, section) ==
    /\ ~panicked
    /\ Live(c)
    /\ LET addr == commands[c].addr
           r == Ping_invokation(World, addr, section)
       IN Finish(r, [op |-> "ping", addr |-> addr, valid |-> section.valid,
                     response |-> Reply(r), ret |-> ""])
    /\ UNCHANGED <<config, reactor, started, listening>>
    /\ UNCHANGED <<connectVars, lockVars, pureVars>>

ReceiveRequestSupportFlags(c, section) ==
    /\ ~panicked
    /\ Live(c)
    /\ LET addr == commands[c].addr
           r == RequestSupportFlags_invokation(World, addr, section)
       IN Finish(r, [op |-> "request_support_flags", addr |-> addr,
                     valid |-> section.valid, response |-> Reply(r),
                     ret |-> ""])
    /\ UNCHANGED <<config, reactor, started, listening>>
    /\ UNCHANGED <<connectVars, lockVars, pureVars>>

ReceiveTimedSync(c, section) ==
    /\ ~panicked
    /\ Live(c)
    /\ LET addr == commands[c].addr
           r == TimedSync_invokation(World, addr, section)
       IN Finish(r, [op |-> "timed_sync", addr |-> addr,
                     valid |-> section.valid, response |-> Reply(r),
                     ret |-> ""])
    /\ UNCHANGED <<config, reactor, started, listening>>
    /\ UNCHANGED <<connectVars, lockVars, pureVars>>

\* Context::close called from outside the handlers.
Close(addr) ==
    /\ ~panicked
    /\ started
    /\ LET w == Context_close(World, addr)
       IN IF addr \in DOMAIN command_streams
          THEN Commit([w EXCEPT !.effects[command_streams[addr]].entered = TRUE])
          ELSE Commit(w)
    /\ last' = [op |-> "close", addr |-> addr,
                registered |-> addr \in DOMAIN command_streams]
    /\ UNCHANGED <<config, reactor, started, listening, panicked>>
    /\ UNCHANGED <<connectVars, lockVars, pureVars>>

NextContext ==
    \/ P2P_run
    \/ Context_spawn_server
    \/ RunConnect
    \/ \E addr \in Addrs : Accept(addr)
    \/ \E c \in Cmds : Established(c)
    \/ \E c \in Cmds : TransportError(c)
    \/ \E c \in Cmds, section \in Sections : ReceiveHandshakeRequest(c, section)
    \/ \E c \in Cmds, section \in HandshakeResponses :
          ReceiveHandshakeResponse(c, section)
    \/ \E c \in Cmds : ReceiveSupportFlagsResponse(c)
    \/ \E c \in Cmds, kind \in Kinds : DropResponse(c, kind)
    \/ \E addr \in Addrs : Close(addr)

\* The connections as they come and go, and the requests that are answered
\* without a handshake.
NextRequests ==
    \/ P2P_run
    \/ Context_spawn_server
    \/ RunConnect
    \/ \E addr \in Addrs : Accept(addr)
    \/ \E c \in Cmds : Established(c)
    \/ \E c \in Cmds : TransportError(c)
    \/ \E addr \in Addrs : Close(addr)
    \/ \E c \in Cmds, section \in Requests : ReceivePing(c, section)
    \/ \E c \in Cmds, section \in Requests :
          ReceiveRequestSupportFlags(c, section)
    \/ \E c \in Cmds, section \in Requests : ReceiveTimedSync(c, section)

\* ------------------------------------------------------- Connect future
ConnectStates ==
    <<"TcpConnect", "InvokeHandshake", "ReceiveRequestSupportFlags",
      "SendSupportFlags", "ReceiveHandshakeResponse">>

StageOf(st) == CHOOSE i \in 1..Len(ConnectStates) : ConnectStates[i] = st

\* connect(): the future starts in TcpConnect.
InitConnect ==
    /\ connect_state = "TcpConnect"
    /\ connect_wire = <<>>
    /\ connect_outcome = [tag |-> "NotReady"]
    /\ connect_received = <<>>
    /\ connect_visited = <<"TcpConnect">>

\* What the inner future of a stage can complete with: an i/o error, or
\* ready; a receive is ready with a message or with a levin error.
Responses == {[valid |-> TRUE, node_data |-> d] : d \in NodeData}

EventsAt(stage) ==
    {[kind |-> "io_error"], [kind |-> "ready"]}
    \cup (IF ConnectStates[stage] \in {"ReceiveRequestSupportFlags",
                                       "ReceiveHandshakeResponse"}
          THEN {[kind |-> "levin_error"]}
          ELSE {})

\* Validate without its network id check.
Validate_skips_network_id(response) ==
    IF response.node_data.peer_id = config.peer_id
    THEN [tag |-> "Ready", result |-> "SamePeerId"]
    ELSE [tag |-> "Ready", result |-> "Ok", response |-> response]

\* Validate without its peer id check.
Validate_skips_peer_id(response) ==
    IF response.node_data.network_id # Network_id(config.network)
    THEN [tag |-> "Ready", result |-> "WrongNetwork",
          network_id |-> response.node_data.network_id]
    ELSE [tag |-> "Ready", result |-> "Ok", response |-> response]

\* The checks on a received handshake response.
Validate(response) ==
    IF response.node_data.network_id # Network_id(config.network)
    THEN [tag |-> "Ready", result |-> "WrongNetwork",
          network_id |-> response.node_data.network_id]
    ELSE IF response.node_data.peer_id = config.peer_id
    THEN [tag |-> "Ready", result |-> "SamePeerId"]
    ELSE [tag |-> "Ready", result |-> "Ok", response |-> response]

\* One call of poll: the loop runs on for as long as the inner future of the
\* current state has completed.
RECURSIVE PollLoop(_, _, _)

\* poll going back to ReceiveRequestSupportFlags after SendSupportFlags.
PollLoop_branches_back(st, wire, visited) ==
    LET here(outcome, rest, received) ==
            [state |-> st, wire |-> rest, outcome |-> outcome,
             received |-> received, visited |-> visited]
        next(st2) == PollLoop(st2, Tail(wire), Append(visited, st2))
    IN IF wire = <<>>
       THEN here([tag |-> "NotReady"], wire, <<>>)
       ELSE LET ev == Head(wire) IN
            IF ev.kind = "io_error"
            THEN here([tag |-> "Err"], Tail(wire), <<>>)
            ELSE CASE st = "TcpConnect" -> next("InvokeHandshake")
                   [] st = "InvokeHandshake" -> next("ReceiveRequestSupportFlags")
                   [] st = "ReceiveRequestSupportFlags" ->
                        IF ev.kind = "levin_error"
                        THEN here([tag |-> "Ready", result |-> "LevinError"],
                                  Tail(wire), <<>>)
                        ELSE next("SendSupportFlags")
                   [] st = "SendSupportFlags" ->
                        next("ReceiveRequestSupportFlags")
                   [] st = "ReceiveHandshakeResponse" ->
                        IF ev.kind = "levin_error"
                        THEN here([tag |-> "Ready", result |-> "LevinError"],
                                  Tail(wire), <<>>)
                        ELSE here(Validate(ev.response), Tail(wire),
                                  <<ev.response>>)

PollLoop(st, wire, visited) ==
    LET here(outcome, rest, received) ==
            [state |-> st, wire |-> rest, outcome |-> outcome,
             received |-> received, visited |-> visited]
        next(st2) == PollLoop(st2, Tail(wire), Append(visited, st2))
    IN IF wire = <<>>
       THEN here([tag |-> "NotReady"], wire, <<>>)
       ELSE LET ev == Head(wire) IN
            IF ev.kind = "io_error"
            THEN here([tag |-> "Err"], Tail(wire), <<>>)
            ELSE CASE st = "TcpConnect" -> next("InvokeHandshake")
                   [] st = "InvokeHandshake" -> next("ReceiveRequestSupportFlags")
                   [] st = "ReceiveRequestSupportFlags" ->
                        IF ev.kind = "levin_error"
                        THEN here([tag |-> "Ready", result |-> "LevinError"],
                                  Tail(wire), <<>>)
                        ELSE next("SendSupportFlags")
                   [] st = "SendSupportFlags" -> next("ReceiveHandshakeResponse")
                   [] st = "ReceiveHandshakeResponse" ->
                        IF ev.kind = "levin_error"
                        THEN here([tag |-> "Ready", result |-> "LevinError"],
                                  Tail(wire), <<>>)
                        ELSE here(Validate(ev.response), Tail(wire),
                                  <<ev.response>>)

\* The inner future of a coming stage completes.
Arrive(ev) ==
    /\ connect_outcome.tag = "NotReady"
    /\ \A i \in 1..Len(connect_wire) : connect_wire[i].kind = "ready"
    /\ LET stage == StageOf(connect_state) + Len(connect_wire) IN
       /\ stage <= Len(ConnectStates)
       /\ \/ /\ ev \in EventsAt(stage)
             /\ ~(ev.kind = "ready" /\ stage = Len(ConnectStates))
             /\ connect_wire' = Append(connect_wire, ev)
          \/ /\ ev \in Responses
             /\ stage = Len(ConnectStates)
             /\ connect_wire' = Append(connect_wire,
                                       [kind |-> "ready", response |-> ev])
    /\ UNCHANGED <<connect_state, connect_outcome, connect_received,
                   connect_visited>>
    /\ UNCHANGED <<ctxVars, lockVars, pureVars>>

Connect_poll ==
    /\ connect_outcome.tag = "NotReady"
    /\ LET r == PollLoop(connect_state, connect_wire, connect_visited) IN
       /\ connect_state' = r.state
       /\ connect_wire' = r.wire
       /\ connect_outcome' = r.outcome
       /\ connect_received' = r.received
       /\ connect_visited' = r.visited
    /\ UNCHANGED <<ctxVars, lockVars, pureVars>>

NextConnect ==
    \/ \E ev \in EventsAt(1) \cup EventsAt(Len(ConnectStates)) \cup Responses :
          Arrive(ev)
    \/ Connect_poll

\* ------------------------------------------------ lock scopes of Context
\* Context is shared through Arc and its operations are callable from any
\* thread.  Each operation is cut where a lock is taken or dropped.  A guard
\* returned by read() or write() is a temporary: it is dropped at the end of
\* the statement it is created in, and for the scrutinee of an `if let` that
\* is the end of the whole `if let`, its block included.  ConnectionCounter
\* takes its own lock for the length of each of its methods.
Threads == 1..NumThreads

Locks == {"command_streams", "connection_counter", "peerlist"}

Idle == [pc |-> "idle"]

\* The lock a thread at pc is about to take, and how.
Wanted(pc) ==
    CASE pc \in {"close_write", "insert_write"}
             -> <<"command_streams", "write">>
      [] pc = "lookup_read" -> <<"command_streams", "read">>
      [] pc \in {"close_note", "note_new", "direction"}
             -> <<"connection_counter", "write">>
      [] pc = "peerlist_read" -> <<"peerlist", "read">>
      [] OTHER -> <<>>

\* Thread u holds lock in a mode that keeps out a request for it in mode.
Conflicts(u, lock, mode) ==
    \E h \in lk_held[u] : h[1] = lock /\ (mode = "write" \/ h[2] = "write")

Available(want) == \A u \in Threads : ~Conflicts(u, want[1], want[2])

At(t, pc) == lk_threads[t].pc = pc

Take(t) ==
    /\ Available(Wanted(lk_threads[t].pc))
    /\ lk_held' = [lk_held EXCEPT ![t] = @ \cup {Wanted(lk_threads[t].pc)}]

Drop(t, lock) ==
    lk_held' = [lk_held EXCEPT ![t] = {h \in @ : h[1] # lock}]

Goto(t, pc) == lk_threads' = [lk_threads EXCEPT ![t].pc = pc]

InitLocks ==
    /\ lk_threads = [t \in Threads |-> Idle]
    /\ lk_held = [t \in Threads |-> {}]
    /\ lk_table = {}
    /\ lk_counted = EmptyMap

\* A thread enters Context::close, the registration of on_connect or of the
\* connect closure, or on_handshake; a request with a foreign network id
\* takes on_handshake straight to Context::close.
Lk_Call(t, op, addr, local) ==
    /\ At(t, "idle")
    /\ lk_threads' =
           [lk_threads EXCEPT ![t] =
               [op |-> op, addr |-> addr,
                pc |-> CASE op = "close" -> "close_write"
                         [] op \in {"on_connect", "connect"} -> "insert_write"
                         [] op = "on_handshake" ->
                                IF local THEN "direction" ELSE "close_write"]]
    /\ UNCHANGED <<lk_held, lk_table, lk_counted>>
    /\ UNCHANGED <<ctxVars, connectVars, pureVars>>

\* Context::close: `if let Some(..) = command_streams.write().remove(addr)`.
Lk_close_write(t) ==
    /\ At(t, "close_write")
    /\ Take(t)
    /\ lk_table' = lk_table \ {lk_threads[t].addr}
    /\ Goto(t, IF lk_threads[t].addr \in lk_table THEN "close_note"
                                                   ELSE "close_drop")
    /\ UNCHANGED lk_counted
    /\ UNCHANGED <<ctxVars, connectVars, pureVars>>

\* ... shutdown(), then note_close_connection takes the counter's lock,
Lk_close_note(t) ==
    /\ At(t, "close_note")
    /\ Take(t)
    /\ Goto(t, "close_noted")
    /\ UNCHANGED <<lk_table, lk_counted>>
    /\ UNCHANGED <<ctxVars, connectVars, pureVars>>

\* ... forgets the address and returns,
Lk_close_noted(t) ==
    /\ At(t, "close_noted")
    /\ Drop(t, "connection_counter")
    /\ lk_counted' = MapRemove(lk_counted, lk_threads[t].addr)
    /\ Goto(t, "close_drop")
    /\ UNCHANGED lk_table
    /\ UNCHANGED <<ctxVars, connectVars, pureVars>>

\* ... and the `if let` ends, dropping the write guard.
Lk_close_drop(t) ==
    /\ At(t, "close_drop")
    /\ Drop(t, "command_streams")
    /\ lk_threads' = [lk_threads EXCEPT ![t] = Idle]
    /\ UNCHANGED <<lk_table, lk_counted>>
    /\ UNCHANGED <<ctxVars, connectVars, pureVars>>

\* `command_streams.write().insert(addr, commands);`
Lk_insert_write(t) ==
    /\ At(t, "insert_write")
    /\ Take(t)
    /\ Goto(t, "insert_done")
    /\ UNCHANGED <<lk_table, lk_counted>>
    /\ UNCHANGED <<ctxVars, connectVars, pureVars>>

Lk_insert_done(t) ==
    /\ At(t, "insert_done")
    /\ Drop(t, "command_streams")
    /\ lk_table' = lk_table \cup {lk_threads[t].addr}
    /\ Goto(t, "note_new")
    /\ UNCHANGED lk_counted
    /\ UNCHANGED <<ctxVars, connectVars, pureVars>>

\* `connection_counter.note_new_inbound_connection(addr);` or its outbound
\* twin.
Lk_note_new(t) ==
    /\ At(t, "note_new")
    /\ Take(t)
    /\ Goto(t, "note_new_done")
    /\ UNCHANGED <<lk_table, lk_counted>>
    /\ UNCHANGED <<ctxVars, connectVars, pureVars>>

Lk_note_new_done(t) ==
    /\ At(t, "note_new_done")
    /\ Drop(t, "connection_counter")
    /\ lk_counted' = MapInsert(lk_counted, lk_threads[t].addr,
                               IF lk_threads[t].op = "connect" THEN "Outbound"
                                                               ELSE "Inbound")
    /\ lk_threads' = [lk_threads EXCEPT ![t] = Idle]
    /\ UNCHANGED lk_table
    /\ UNCHANGED <<ctxVars, connectVars, pureVars>>

\* on_handshake: `match connection_counter.connection_type(&addr)`.
Lk_direction(t) ==
    /\ At(t, "direction")
    /\ Take(t)
    /\ Goto(t, "direction_read")
    /\ UNCHANGED <<lk_table, lk_counted>>
    /\ UNCHANGED <<ctxVars, connectVars, pureVars>>

\* Outbound goes to Context::close, no direction to unreachable!(), and
\* Inbound on to the lookup unless the request is one of those that end in
\* unimplemented!().
Lk_direction_read(t) ==
    /\ At(t, "direction_read")
    /\ Drop(t, "connection_counter")
    /\ LET addr == lk_threads[t].addr
           type == IF addr \in DOMAIN lk_counted THEN lk_counted[addr]
                                                 ELSE "None"
       IN \E pc \in (CASE type = "Outbound" -> {"close_write"}
                       [] type = "None" -> {"panicked"}
                       [] OTHER -> {"lookup_read", "panicked"}) : Goto(t, pc)
    /\ UNCHANGED <<lk_table, lk_counted>>
    /\ UNCHANGED <<ctxVars, connectVars, pureVars>>

\* `command_streams.read().get(&addr).cloned().unwrap()`
Lk_lookup_read(t) ==
    /\ At(t, "lookup_read")
    /\ Take(t)
    /\ Goto(t, "lookup_done")
    /\ UNCHANGED <<lk_table, lk_counted>>
    /\ UNCHANGED <<ctxVars, connectVars, pureVars>>

Lk_lookup_done(t) ==
    /\ At(t, "lookup_done")
    /\ Drop(t, "command_streams")
    /\ Goto(t, IF lk_threads[t].addr \in lk_table THEN "peerlist_read"
                                                   ELSE "panicked")
    /\ UNCHANGED <<lk_table, lk_counted>>
    /\ UNCHANGED <<ctxVars, connectVars, pureVars>>

\* `local_peerlist: context.peerlist.read().stl_peerlist()`
Lk_peerlist_read(t) ==
    /\ At(t, "peerlist_read")
    /\ Take(t)
    /\ Goto(t, "peerlist_done")
    /\ UNCHANGED <<lk_table, lk_counted>>
    /\ UNCHANGED <<ctxVars, connectVars, pureVars>>

Lk_peerlist_done(t) ==
    /\ At(t, "peerlist_done")
    /\ Drop(t, "peerlist")
    /\ lk_threads' = [lk_threads EXCEPT ![t] = Idle]
    /\ UNCHANGED <<lk_table, lk_counted>>
    /\ UNCHANGED <<ctxVars, connectVars, pureVars>>

LockOps == {"close", "on_connect", "connect", "on_handshake"}

NextLocks ==
    \/ \E t \in Threads, op \in LockOps, addr \in Addrs, local \in BOOLEAN :
          Lk_Call(t, op, addr, local)
    \/ \E t \in Threads : Lk_close_write(t)
    \/ \E t \in Threads : Lk_close_note(t)
    \/ \E t \in Threads : Lk_close_noted(t)
    \/ \E t \in Threads : Lk_close_drop(t)
    \/ \E t \in Threads : Lk_insert_write(t)
    \/ \E t \in Threads : Lk_insert_done(t)
    \/ \E t \in Threads : Lk_note_new(t)
    \/ \E t \in Threads : Lk_note_new_done(t)
    \/ \E t \in Threads : Lk_direction(t)
    \/ \E t \in Threads : Lk_direction_read(t)
    \/ \E t \in Threads : Lk_lookup_read(t)
    \/ \E t \in Threads : Lk_lookup_done(t)
    \/ \E t \in Threads : Lk_peerlist_read(t)
    \/ \E t \in Threads : Lk_peerlist_done(t)

\* ------------------------------------------------------------------ varint
\* A u64 is the set of the positions of its one bits, so that shifts, masks
\* and the bits lost off the top are those of the 64-bit word.
MOST_SIGNIFICANT_BIT == 128

U64Bits == 64

BitPositions == 0..(U64Bits - 1)

\* The value of the bits below position 8, as a byte.
RECURSIVE AsU8(_)
AsU8(word) ==
    LET low == {i \in word : i < 8} IN
    IF low = {}
    THEN 0
    ELSE LET i == CHOOSE j \in low : TRUE IN 2^i + AsU8(low \ {i})

FromU8(byte) == {i \in 0..7 : (byte \div 2^i) % 2 = 1}

ShiftRight(word, k) == {i - k : i \in {j \in word : j >= k}}

ShiftLeft(word, k) == {i \in BitPositions : i - k \in word}

\* number > 127, which is also i >= 0x80
Above127(word) == \E i \in word : i >= 7

\* write(): the loop of lines 28-32, then the last byte.
RECURSIVE write(_, _)
write(output, number) ==
    IF Above127(number)
    THEN write(Append(output, AsU8({i \in number : i < 7}) + MOST_SIGNIFICANT_BIT),
               ShiftRight(number, 7))
    ELSE Append(output, AsU8(number))

\* read() with shift advancing by a whole byte.
RECURSIVE read_shifts_by_eight(_, _, _)
read_shifts_by_eight(buf, output, shift) ==
    IF buf = <<>>
    THEN [tag |-> "panic"]
    ELSE LET byte == Head(buf) IN
         IF shift + 7 >= U64Bits /\ byte >= 2^(U64Bits - shift)
         THEN [tag |-> "Err", error |-> "Overflow"]
         ELSE IF byte = 0 /\ shift # 0
         THEN [tag |-> "Err", error |-> "Represent"]
         ELSE LET output2 == output \cup ShiftLeft(FromU8(byte % 128), shift)
              IN IF byte \div 128 = 0
                 THEN [tag |-> "Ok", value |-> output2]
                 ELSE read_shifts_by_eight(Tail(buf), output2, shift + 8)

\* read(): the loop of lines 41-61 on the bytes left in the buffer, with
\* the output and the shift so far.  get_u8 on an empty buffer panics.
RECURSIVE read_loop(_, _, _)
read_loop(buf, output, shift) ==
    IF buf = <<>>
    THEN [tag |-> "panic"]
    ELSE LET byte == Head(buf) IN
         IF shift + 7 >= U64Bits /\ byte >= 2^(U64Bits - shift)
         THEN [tag |-> "Err", error |-> "Overflow"]
         ELSE IF byte = 0 /\ shift # 0
         THEN [tag |-> "Err", error |-> "Represent"]
         ELSE LET output2 == output \cup ShiftLeft(FromU8(byte % 128), shift)
              IN IF byte \div 128 = 0
                 THEN [tag |-> "Ok", value |-> output2]
                 ELSE read_loop(Tail(buf), output2, shift + 7)

read(buf) == read_loop(buf, {}, 0)

\* length() counting one byte short at the boundaries.
RECURSIVE length_from_off_by_one(_, _)
length_from_off_by_one(count, i) ==
    IF \E j \in i : j >= 8
    THEN length_from_off_by_one(count + 1, ShiftRight(i, 7))
    ELSE count

\* length(): the loop of lines 70-73 from the count and the number so far.
RECURSIVE length_from(_, _)
length_from(count, i) ==
    IF Above127(i)
    THEN length_from(count + 1, ShiftRight(i, 7))
    ELSE count

length(i) == length_from(1, i)

\* The numbers tried: every number up to MaxSmall, and every run of low one
\* bits with a short pattern flipped in at every position, which gives the
\* powers of two, their neighbours and the largest 64-bit value.
MaxSmall == 300
MaxPattern == 3

SmallBits == 0..8

OfSmall(v) == {i \in SmallBits : (v \div 2^i) % 2 = 1}

Flip(a, b) == (a \ b) \cup (b \ a)

VarintNumbers ==
    {OfSmall(v) : v \in 0..MaxSmall}
    \cup {Flip({i \in BitPositions : i < k}, ShiftLeft(OfSmall(v), s)) :
              k \in 0..U64Bits, v \in 0..MaxPattern, s \in BitPositions}

VarintOff ==
    /\ vi_pc = "off"
    /\ vi_number = {}
    /\ vi_bytes = <<>>
    /\ vi_length = 0
    /\ vi_result = [tag |-> "none"]

VarintInputs ==
    /\ vi_pc = "number"
    /\ vi_number \in VarintNumbers
    /\ vi_bytes = <<>>
    /\ vi_length = 0
    /\ vi_result = [tag |-> "none"]

Varint_write ==
    /\ vi_pc = "number"
    /\ vi_bytes' = write(<<>>, vi_number)
    /\ vi_length' = length(vi_number)
    /\ vi_pc' = "written"
    /\ UNCHANGED <<vi_number, vi_result>>
    /\ UNCHANGED <<ctxVars, connectVars, lockVars, powVars>>

Varint_read ==
    /\ vi_pc = "written"
    /\ vi_result' = read(vi_bytes)
    /\ vi_pc' = "read"
    /\ UNCHANGED <<vi_number, vi_bytes, vi_length>>
    /\ UNCHANGED <<ctxVars, connectVars, lockVars, powVars>>

NextVarint ==
    \/ Varint_write
    \/ Varint_read

\* ------------------------------------------------------- proof of work
\* U256 and U512 are sequences of 32 and 64 bytes, least significant first;
\* a u64 is 8 of them.
U64Bytes == 8
U256Bytes == 32
U512Bytes == 64

Limb(a, i) == IF i <= Len(a) THEN a[i] ELSE 0

Resize(a, n) == [i \in 1..n |-> Limb(a, i)]

\* A carry chain over limbs lo..hi is run by halves: the low half hands its
\* carry to the high half.  A run gives <<limbs, carry out>>.
Limbs(run) == run[1]

Carry(run) == run[2]

\* a * m + carry for small m and carry: the limbs lo..hi and the carry out.
RECURSIVE MulAddRange(_, _, _, _, _)
MulAddRange(a, m, carry, lo, hi) ==
    IF lo = hi
    THEN LET x == a[lo] * m + carry
         IN <<<<x % 256>>, x \div 256>>
    ELSE LET mid == (lo + hi) \div 2
             low == MulAddRange(a, m, carry, lo, mid)
             high == MulAddRange(a, m, Carry(low), mid + 1, hi)
         IN <<Limbs(low) \o Limbs(high), Carry(high)>>

\* from_dec_str: acc * 10 + digit for the digits lo..hi, the most
\* significant first.  A number that does not fit is the error, written <<>>.
RECURSIVE FromDecRange(_, _, _, _)
FromDecRange(digits, lo, hi, acc) ==
    IF lo = hi
    THEN LET run == MulAddRange(acc, 10, digits[lo], 1, Len(acc))
         IN IF Carry(run) > 0 THEN <<>> ELSE Limbs(run)
    ELSE LET mid == (lo + hi) \div 2
             left == FromDecRange(digits, lo, mid, acc)
         IN IF left = <<>>
            THEN <<>>
            ELSE FromDecRange(digits, mid + 1, hi, left)

FromDec(digits, zero) == FromDecRange(digits, 1, Len(digits), zero)

U512_from_dec_str(digits) == FromDec(digits, Resize(<<>>, U512Bytes))

U256_from_dec_str(digits) == FromDec(digits, Resize(<<>>, U256Bytes))

\* The decimal string of U256_MAX.
U256_MAX_DIGITS ==
    <<1, 1, 5, 7, 9, 2, 0, 8, 9, 2, 3, 7, 3, 1, 6, 1, 9, 5, 4, 2, 3, 5, 7, 0, 9, 8,
      5, 0, 0, 8, 6, 8, 7, 9, 0, 7, 8, 5, 3, 2, 6, 9, 9, 8, 4, 6, 6, 5, 6, 4, 0, 5,
      6, 4, 0, 3, 9, 4, 5, 7, 5, 8, 4, 0, 0, 7, 9, 1, 3, 1, 2, 9, 6, 3, 9, 9, 3, 5>>

U256_MAX == U512_from_dec_str(U256_MAX_DIGITS)

U256_from_little_endian(bytes) == Resize(bytes, U256Bytes)

U256_from_u64(bytes) == Resize(bytes, U256Bytes)

\* Column k of the schoolbook product: the sum of a[i] * b[k + 1 - i] for
\* i in lo..hi.
RECURSIVE ColumnSum(_, _, _, _, _)
ColumnSum(a, b, k, lo, hi) ==
    IF lo = hi
    THEN Limb(a, lo) * Limb(b, k + 1 - lo)
    ELSE LET mid == (lo + hi) \div 2
         IN ColumnSum(a, b, k, lo, mid) + ColumnSum(a, b, k, mid + 1, hi)

\* The limbs lo..hi of a * b and the carry out of them.
RECURSIVE MulRange(_, _, _, _, _)
MulRange(a, b, carry, lo, hi) ==
    IF lo = hi
    THEN LET x == carry + ColumnSum(a, b, lo, 1, lo)
         IN <<<<x % 256>>, x \div 256>>
    ELSE LET mid == (lo + hi) \div 2
             low == MulRange(a, b, carry, lo, mid)
             high == MulRange(a, b, Carry(low), mid + 1, hi)
         IN <<Limbs(low) \o Limbs(high), Carry(high)>>

\* The product kept in 256 bits, as U256's own `*` would keep it.
full_mul_wrapping(a, b) ==
    Resize(Limbs(MulRange(a, b, 0, 1, U256Bytes)), U512Bytes)

\* U256::full_mul: the whole product, as a U512.
full_mul(a, b) == Limbs(MulRange(a, b, 0, 1, U512Bytes))

\* The order of two numbers of one width on the limbs lo..hi: the upper
\* half decides unless it is equal.
RECURSIVE Compare(_, _, _, _)
Compare(a, b, lo, hi) ==
    IF lo = hi
    THEN IF a[lo] < b[lo] THEN -1 ELSE IF a[lo] > b[lo] THEN 1 ELSE 0
    ELSE LET mid == (lo + hi) \div 2
             upper == Compare(a, b, mid + 1, hi)
         IN IF upper # 0 THEN upper ELSE Compare(a, b, lo, mid)

Leq(a, b) == Compare(a, b, 1, Len(a)) <= 0

proof_of_work_is_valid(pow_bytes_le, difficulty) ==
    LET pow_u256 == U256_from_little_endian(pow_bytes_le)
        difficulty_u256 == U256_from_u64(difficulty)
    IN Leq(full_mul(pow_u256, difficulty_u256), U256_MAX)

\* The inputs tried.  Difficulties are 0 .. MaxDifficulty and the one of the
\* tests; the hashes are 0, 1, the largest, and around each difficulty's
\* target the target itself and its two neighbours.
MaxDifficulty == 12

\* The difficulty of the tests at the target (lines 57 and 67).
TEST_DIFFICULTY_DIGITS ==
    <<5, 1, 6, 3, 8, 5, 1, 1, 0, 3, 9>>

\* The target the tests give for it (lines 58 and 68).
TEST_TARGET_DIGITS ==
    <<2, 2, 4, 2, 3, 5, 9, 1, 7, 9, 3, 7, 0, 2, 9, 9, 5, 7, 0, 1, 8, 1, 8, 2, 2, 2,
      7, 9, 3, 3, 7, 1, 5, 6, 6, 9, 9, 9, 5, 0, 5, 6, 3, 5, 1, 1, 9, 4, 1, 0, 8, 9,
      6, 0, 7, 9, 8, 1, 8, 2, 3, 6, 6, 8, 3, 2, 0>>

AllOnes(n) == [i \in 1..n |-> 255]

Reverse(s) == [i \in 1..Len(s) |-> s[Len(s) + 1 - i]]

\* a \div d for a small d on the limbs lo..hi, from the top limb down: the
\* upper half hands its remainder, the carry of a division, to the lower
\* half.  The limbs of the quotient come out the top one first.
RECURSIVE DivRange(_, _, _, _, _)
DivRange(a, d, rem, lo, hi) ==
    IF lo = hi
    THEN LET x == rem * 256 + a[lo]
         IN <<<<x \div d>>, x % d>>
    ELSE LET mid == (lo + hi) \div 2
             upper == DivRange(a, d, rem, mid + 1, hi)
             lower == DivRange(a, d, Carry(upper), lo, mid)
         IN <<Limbs(upper) \o Limbs(lower), Carry(lower)>>

Div(a, d) == Reverse(Limbs(DivRange(a, d, 0, 1, Len(a))))

\* The number of low limbs of a that are all x.
LowRun(a, x) == Cardinality({i \in 1..Len(a) : \A j \in 1..i : a[j] = x})

\* a + 1 and a - 1 in the width of a.
Succ(a) ==
    LET z == LowRun(a, 255)
    IN [i \in 1..Len(a) |->
           IF i <= z THEN 0 ELSE IF i = z + 1 THEN a[i] + 1 ELSE a[i]]

Pred(a) ==
    LET z == LowRun(a, 0)
    IN [i \in 1..Len(a) |->
           IF i <= z THEN 255 ELSE IF i = z + 1 THEN a[i] - 1 ELSE a[i]]

\* A difficulty as the u64 it is passed as, with floor((2^256 - 1) / it).
PowDifficulties ==
    {[difficulty |-> Resize(<<d>>, U64Bytes),
      target |-> Div(AllOnes(U256Bytes), d)] :
         d \in 1..MaxDifficulty}
    \cup {[difficulty |-> Resize(U256_from_dec_str(TEST_DIFFICULTY_DIGITS),
                                 U64Bytes),
           target |-> U256_from_dec_str(TEST_TARGET_DIGITS)]}

PowHashes ==
    {Resize(<<>>, U256Bytes), Resize(<<1>>, U256Bytes), AllOnes(U256Bytes)}
    \cup UNION {{Pred(c.target), c.target, Succ(c.target)} :
                   c \in PowDifficulties}

PowInputs ==
    {[pow |-> h, difficulty |-> c.difficulty, bound |-> <<c.target>>] :
        h \in PowHashes, c \in PowDifficulties}
    \cup {[pow |-> h, difficulty |-> Resize(<<>>, U64Bytes), bound |-> <<>>] :
             h \in PowHashes}

PowOff ==
    /\ pw_pc = "off"
    /\ pw_input = [pow |-> <<>>, difficulty |-> <<>>, bound |-> <<>>]
    /\ pw_valid = FALSE

PowGiven ==
    /\ pw_pc = "given"
    /\ pw_input \in PowInputs
    /\ pw_valid = FALSE

Pow_verify ==
    /\ pw_pc = "given"
    /\ pw_valid' = proof_of_work_is_valid(pw_input.pow, pw_input.difficulty)
    /\ pw_pc' = "verified"
    /\ UNCHANGED pw_input
    /\ UNCHANGED <<ctxVars, connectVars, lockVars, varintVars>>

NextPow == Pow_verify

\* ---------------------------------------------------------- specifications
vars == <<ctxVars, connectVars, lockVars, pureVars>>

\* The node with nothing configured, for the specifications of the codecs.
QuietConfig ==
    [network |-> "Mainnet", peer_id |-> LocalPeerId, hide_my_port |-> TRUE,
     in_peers |-> 0, out_peers |-> 0, peers |-> <<>>]

Quiet == InitContext /\ config = QuietConfig /\ InitConnect /\ InitLocks

Init == InitContext /\ InitConnect /\ InitLocks /\ VarintOff /\ PowOff

Next == NextContext

Spec == Init /\ [][Next]_vars

SpecConnect == Init /\ [][NextConnect]_vars

SpecRequests == Init /\ [][NextRequests]_vars

SpecLocks == Init /\ [][NextLocks]_vars

InitVarint == Quiet /\ VarintInputs /\ PowOff

InitPow == Quiet /\ VarintOff /\ PowGiven

SpecPow == InitPow /\ [][NextPow]_vars

SpecVarint == InitVarint /\ [][NextVarint]_vars

\* ------------------------------------------------------------------ claims
Registered(c) ==
    /\ commands[c].addr \in DOMAIN command_streams
    /\ command_streams[commands[c].addr] = c

Recorded(direction) ==
    {a \in DOMAIN connection_counter.connections :
        connection_counter.connections[a] = direction}

Synced(c) == \E i \in 1..Len(local_sync_node) : local_sync_node[i].cmd = c

C2_CountsMatchRecords ==
    /\ connection_counter.current_outbound_connections
           = Cardinality(Recorded("Outbound"))
    /\ connection_counter.current_inbound_connections
           = Cardinality(Recorded("Inbound"))
    /\ connection_counter.current_outbound_connections >= 0
    /\ connection_counter.current_inbound_connections >= 0

\* C3: the outbound count never exceeds max-outbound (config.out_peers).
C3_OutboundWithinMax ==
    connection_counter.current_outbound_connections
        <= connection_counter.max_outbound_connections

\* C4: the inbound count never exceeds max-inbound (config.in_peers); with
\* max-inbound = 0 no accepted address is registered or counted.
C4_InboundWithinMax ==
    /\ connection_counter.current_inbound_connections
           <= connection_counter.max_inbound_connections
    /\ connection_counter.max_inbound_connections = 0
           => \A c \in Inbound : ~Registered(c)

\* C5: an outbound attempt whose transport has failed has left no table
\* entry and no counted slot behind.
C5_FailedAttemptReleased ==
    \A c \in Cmds :
        (commands[c].direction = "Outbound" /\ commands[c].transport = "failed")
            => (~Registered(c) /\ effects[c].released = 1)

\* C6: for a registered connection that has entered the close path, the
\* removal from command_streams, the shutdown of its multiplexer and the
\* decrement of the counter have each happened exactly once.
C6_CloseEffectsOnce ==
    \A c \in Cmds :
        effects[c].entered
            => /\ effects[c].removed = 1
               /\ effects[c].shutdown = 1
               /\ effects[c].released = 1

\* C7: when the received handshake response carries a network id other than
\* the local one, poll returns WrongNetwork with that id, and never Ok.
C7_WrongNetwork ==
    (/\ connect_received # <<>>
     /\ connect_received[1].node_data.network_id # Network_id(config.network))
        => connect_outcome =
               [tag |-> "Ready", result |-> "WrongNetwork",
                network_id |-> connect_received[1].node_data.network_id]

\* C7 witness: poll has returned WrongNetwork.
C7_Witness ==
    /\ connect_outcome.tag = "Ready"
    /\ connect_outcome.result = "WrongNetwork"
    /\ connect_outcome.network_id = TESTNET_NETWORK_ID

\* C8 as stated: when the received handshake response carries the local peer
\* id, poll returns SamePeerId.
C8_SamePeerIdAlways ==
    (/\ connect_received # <<>>
     /\ connect_received[1].node_data.peer_id = config.peer_id)
        => (connect_outcome.tag = "Ready"
            /\ connect_outcome.result = "SamePeerId")

\* C8 amended: when the received handshake response carries the local peer
\* id, poll never returns Ok: it returns SamePeerId if the response carries
\* the local network id, and WrongNetwork otherwise.
C8_SamePeerId ==
    (/\ connect_received # <<>>
     /\ connect_received[1].node_data.peer_id = config.peer_id)
        => /\ connect_outcome.tag = "Ready"
           /\ connect_outcome.result =
                  (IF connect_received[1].node_data.network_id
                         = Network_id(config.network)
                   THEN "SamePeerId"
                   ELSE "WrongNetwork")

\* C8 witness: poll has returned SamePeerId.
C8_Witness ==
    /\ connect_outcome.tag = "Ready"
    /\ connect_outcome.result = "SamePeerId"
    /\ connect_received[1].node_data.peer_id = config.peer_id

\* C9: a connection whose handshake response carried the local peer id is
\* closed and is not handed to the sync target.
C9_SelfNotSynced ==
    /\ \A i \in 1..Len(local_sync_node) :
           local_sync_node[i].peer_id # config.peer_id
    /\ (/\ last.op = "handshake_response" /\ last.section.valid
        /\ last.section.node_data.peer_id = config.peer_id)
           => ~Registered(last.cmd)

\* C10: once a handshake response with a foreign network id has been
\* processed, the connection is closed, its outbound slot is released and it
\* has not been handed to the sync target.
C10_WrongNetworkClosed ==
    (/\ last.op = "handshake_response" /\ last.section.valid
     /\ last.section.node_data.network_id # Network_id(config.network))
        => /\ ~Registered(last.cmd)
           /\ effects[last.cmd].released = 1
           /\ ~Synced(last.cmd)

\* A Handshake request that decoded has just been handled by on_handshake.
OnHandshakeRan == last.op = "handshake_request" /\ last.section.valid

LocalNetwork(section) ==
    section.node_data.network_id = Network_id(config.network)

\* C11: on_handshake for an address recorded as Outbound never returns Some,
\* whatever the request carries: it returns None and has closed the address,
\* which is then neither in command_streams nor counted.
C11_OutboundRejected ==
    (OnHandshakeRan /\ last.direction = "Outbound")
        => /\ last.ret = "None"
           /\ last.addr \notin DOMAIN command_streams
           /\ connection_type(connection_counter, last.addr) = "None"

\* C11 witness: a request of the local network arrived on an address
\* recorded as Outbound and was rejected.
C11_Witness ==
    /\ OnHandshakeRan /\ last.direction = "Outbound"
    /\ LocalNetwork(last.section)
    /\ last.ret = "None"
    /\ commands[last.cmd].shutdown

\* C12: a step of on_handshake on a request with a foreign network id
\* returns None and leaves the address out of command_streams and without a
\* recorded direction, the count of the direction it had being one less and
\* the other count unchanged.
C12_ForeignNetworkClosed ==
    [][(/\ last'.op = "handshake_request" /\ last'.section.valid
        /\ ~LocalNetwork(last'.section))
          => /\ last'.ret = "None"
             /\ last'.addr \notin DOMAIN command_streams'
             /\ connection_type(connection_counter', last'.addr) = "None"
             /\ connection_counter'.current_inbound_connections
                    = connection_counter.current_inbound_connections
                        - (IF last'.direction = "Inbound" THEN 1 ELSE 0)
             /\ connection_counter'.current_outbound_connections
                    = connection_counter.current_outbound_connections
                        - (IF last'.direction = "Outbound" THEN 1 ELSE 0)]_vars

\* C12 witness: a request with a foreign network id arrived on an address
\* recorded as Inbound, which is closed.
C12_Witness ==
    /\ OnHandshakeRan /\ ~LocalNetwork(last.section)
    /\ last.direction = "Inbound"
    /\ last.ret = "None"
    /\ last.addr \notin DOMAIN command_streams

\* C13: on_handshake for an address with no recorded direction, on a request
\* of the local network, returns no response, has shut the connection down
\* and does not panic.
C13_UnrecordedDropped ==
    (OnHandshakeRan /\ LocalNetwork(last.section) /\ last.direction = "None")
        => /\ last.ret = "None"
           /\ ~panicked
           /\ commands[last.cmd].shutdown

\* C14: on_handshake for an address recorded as Inbound, on a request of the
\* local network, returns Some(response) carrying the node's identity,
\* whatever peer id and port the request carries.
C14_InboundAnswered ==
    (/\ OnHandshakeRan /\ LocalNetwork(last.section)
     /\ last.direction = "Inbound")
        => /\ last.ret = "Some"
           /\ ~panicked

\* C15: the round trip between two nodes of one network with distinct peer
\* ids goes through on both sides.  On the accepting side the handler
\* answers the request the connecting node sends and stays up when the
\* answer to its own support-flags request comes back; on the connecting
\* side, the only connection being the one to the peer, the callback on the
\* peer's response leaves the connection handed to the sync target,
\* registered, and counted as the one outbound connection.
C15_RoundTripCompletes ==
    /\ \A p \in PeerIds \ {config.peer_id}, hide \in BOOLEAN :
           (/\ last.op = "handshake_request" /\ last.direction = "Inbound"
            /\ last.section = PeerHandshakeRequest(p, hide))
               => last.ret = "Some"
    /\ last.op = "support_flags_response" => ~panicked
    /\ (/\ last.op = "handshake_response" /\ last.section.valid
        /\ LocalNetwork(last.section)
        /\ last.section.node_data.peer_id # config.peer_id
        /\ Len(commands) = 1)
           => /\ Synced(last.cmd)
              /\ Registered(last.cmd)
              /\ connection_counter.current_outbound_connections = 1

HeldBy(t) == {h[1] : h \in lk_held[t]}

\* Thread t is at a lock that thread u keeps it out of.
WaitsFor(t, u) ==
    /\ Wanted(lk_threads[t].pc) # <<>>
    /\ Conflicts(u, Wanted(lk_threads[t].pc)[1], Wanted(lk_threads[t].pc)[2])

\* C17: no thread holds more than one of the three locks at a time, and no
\* set of threads waits in a cycle, each for a lock held inside the set.
C17_OneLockAtATime ==
    /\ \A t \in Threads : Cardinality(HeldBy(t)) <= 1
    /\ ~\E S \in SUBSET Threads \ {{}} :
           \A t \in S : \E u \in S : WaitsFor(t, u)

\* C18: a step of Context::close for an address that is not in
\* command_streams leaves the table, the counter and every multiplexer as
\* they were; for a registered address it removes that entry and no other,
\* leaves every other multiplexer and every other recorded direction as they
\* were, takes one off the count of the address's direction and leaves the
\* other count alone.
C18_CloseFrame ==
    [][last'.op = "close"
         => IF ~last'.registered
            THEN UNCHANGED <<command_streams, connection_counter, commands>>
            ELSE LET addr == last'.addr
                     type == connection_type(connection_counter, addr)
                 IN /\ DOMAIN command_streams' = DOMAIN command_streams \ {addr}
                    /\ \A a \in DOMAIN command_streams' :
                           command_streams'[a] = command_streams[a]
                    /\ \A c \in Cmds \ {command_streams[addr]} :
                           commands'[c] = commands[c]
                    /\ \A a \in Addrs \ {addr} :
                           connection_type(connection_counter', a)
                               = connection_type(connection_counter, a)
                    /\ connection_counter'.current_inbound_connections
                           = connection_counter.current_inbound_connections
                               - (IF type = "Inbound" THEN 1 ELSE 0)
                    /\ connection_counter'.current_outbound_connections
                           = connection_counter.current_outbound_connections
                               - (IF type = "Outbound" THEN 1 ELSE 0)]_vars

\* C18 witness: Context::close has removed a registered address while
\* another address stays registered.
C18_Witness ==
    /\ last.op = "close" /\ last.registered
    /\ last.addr \notin DOMAIN command_streams
    /\ DOMAIN command_streams # {}

\* C19: a payload that does not decode never panics: a malformed Handshake
\* request is answered with Err, and a malformed Handshake response leaves
\* the node running.
C19_MalformedNeverPanics ==
    (/\ last.op \in {"handshake_request", "handshake_response"}
     /\ ~last.section.valid)
        => /\ ~panicked
           /\ last.op = "handshake_request" => last.ret = "Err"

\* C20: the states Connect has been in are a prefix of TcpConnect,
\* InvokeHandshake, ReceiveRequestSupportFlags, SendSupportFlags,
\* ReceiveHandshakeResponse, the current state being the last of them, and a
\* response has been validated only with all five visited.
C20_VisitedInOrder ==
    /\ Len(connect_visited) <= Len(ConnectStates)
    /\ connect_visited = SubSeq(ConnectStates, 1, Len(connect_visited))
    /\ connect_state = connect_visited[Len(connect_visited)]
    /\ (\/ connect_received # <<>>
        \/ /\ connect_outcome.tag = "Ready"
           /\ connect_outcome.result \in {"Ok", "WrongNetwork", "SamePeerId"})
           => connect_visited = ConnectStates

\* C20 witness: poll has gone through the five states and returned Ok.
C20_Witness ==
    /\ connect_outcome.tag = "Ready"
    /\ connect_outcome.result = "Ok"
    /\ connect_visited = ConnectStates

IsOutbound(c) == c.direction = "Outbound"

IsConnect(task) == task.op = "connect"

AddrsOf(q) == [i \in 1..Len(q) |-> q[i].addr]

ServerSpawned == \E i \in 1..Len(reactor) : reactor[i].op = "server"

\* C21: once run has returned, the listener has been spawned if and only if
\* hide_my_port is off, and the connect closures already run followed by
\* those still waiting on the reactor are config.peers, entry for entry and
\* in order; when run returns, neither the listener nor any attempt has
\* started.
C21_RunSpawns ==
    /\ (listening \/ ServerSpawned) <=> (started /\ ~config.hide_my_port)
    /\ started =>
           AddrsOf(SelectSeq(commands, IsOutbound))
               \o AddrsOf(SelectSeq(reactor, IsConnect)) = config.peers
    /\ last.op = "run" =>
           /\ started /\ ~listening /\ commands = <<>>
           /\ Len(reactor) = Len(config.peers)
                                + (IF config.hide_my_port THEN 0 ELSE 1)

\* C21 witness: run has just returned with the listener and two connect
\* attempts spawned and none of them started.
C21_Witness ==
    /\ last.op = "run"
    /\ ~config.hide_my_port
    /\ ServerSpawned
    /\ AddrsOf(SelectSeq(reactor, IsConnect)) = config.peers
    /\ Len(config.peers) = MaxPeers

\* The number a sequence of bytes stands for when byte j carries the bits
\* 7j .. 7j+6 in its low seven bits.
GroupsOf(bytes) ==
    {i \in BitPositions :
        /\ i \div 7 < Len(bytes)
        /\ (bytes[(i \div 7) + 1] \div 2^(i % 7)) % 2 = 1}

\* C22: read applied to the bytes written for a number returns Ok with
\* that number, never Overflow or Represent.
C22_ReadWriteIsEqual ==
    vi_pc = "read" => vi_result = [tag |-> "Ok", value |-> vi_number]

\* C22 witness: the largest 64-bit number has been written in ten bytes and
\* read back.
C22_Witness ==
    /\ vi_pc = "read"
    /\ vi_number = BitPositions
    /\ Len(vi_bytes) = 10
    /\ vi_result.tag = "Ok"

\* C27: the bytes written are the groups of seven bits of the number from
\* the least significant up, every byte but the last with the high bit set,
\* the last with it clear and non-zero unless the number is 0; length
\* gives their count, which is the least number of groups that hold the
\* number's highest bit, and one for 0.
C27_MinimalEncoding ==
    vi_pc # "number" =>
        /\ GroupsOf(vi_bytes) = vi_number
        /\ \A j \in 1..(Len(vi_bytes) - 1) :
               vi_bytes[j] >= MOST_SIGNIFICANT_BIT /\ vi_bytes[j] <= 255
        /\ vi_bytes[Len(vi_bytes)] < MOST_SIGNIFICANT_BIT
        /\ vi_bytes[Len(vi_bytes)] = 0 => vi_number = {}
        /\ vi_length = Len(vi_bytes)
        /\ \A n \in 1..10 :
               (\A i \in vi_number : i < 7 * n) => vi_length <= n

\* C27 witness: 16384, the least number that takes three bytes, has been
\* written as 128, 128, 1.
C27_Witness ==
    /\ vi_pc = "written"
    /\ vi_number = {14}
    /\ vi_bytes = <<128, 128, 1>>
    /\ vi_length = 3

\* C23: proof_of_work_is_valid is true exactly when the hash, read as a
\* little-endian 256-bit number, is at most floor((2^256 - 1) / difficulty),
\* and for difficulty 0 always; the hash at the target is valid and the one
\* after it is not.
C23_ValidIffAtMostTarget ==
    pw_pc = "verified" =>
        (pw_valid <=> (\/ pw_input.bound = <<>>
                       \/ Leq(pw_input.pow, pw_input.bound[1])))

\* C23 witness: with the difficulty of the tests, the hash one above the
\* target has been found invalid.
C23_Witness ==
    /\ pw_pc = "verified"
    /\ pw_input.bound = <<U256_from_dec_str(TEST_TARGET_DIGITS)>>
    /\ pw_input.pow = Succ(pw_input.bound[1])
    /\ ~pw_valid

\* C24: an entry of command_streams goes away only through Context::close: a
\* multiplexer that is no longer the entry of its address has been removed
\* by close and shut down, so registering an address again never replaces
\* one that has not been shut down.
C24_RemovedOnlyByClose ==
    \A c \in Cmds :
        ~Registered(c) => (effects[c].removed = 1 /\ commands[c].shutdown)

\* C25: while the dial of an outbound connection is pending, and when the
\* dial fails, its multiplexer is not in command_streams and its address is
\* not counted as Outbound.
C25_RegisteredOnceEstablished ==
    [][\A c \in 1..Len(commands') :
          (/\ commands'[c].direction = "Outbound"
           /\ \/ commands'[c].transport = "dialing"
              \/ /\ c \in Cmds
                 /\ commands[c].transport = "dialing"
                 /\ commands'[c].transport = "failed")
              => /\ ~(/\ commands'[c].addr \in DOMAIN command_streams'
                      /\ command_streams'[commands'[c].addr] = c)
                 /\ connection_type(connection_counter', commands'[c].addr)
                        # "Outbound"]_vars

\* C28: once on_handshake has found its address recorded as Inbound, its
\* lookup of the address in command_streams finds the multiplexer, whatever
\* other threads do in between.
C28_LookupSucceeds ==
    [][\A t \in Threads :
          (lk_threads[t].pc = "lookup_done" /\ lk_threads'[t].pc # "lookup_done")
              => lk_threads'[t].pc = "peerlist_read"]_vars

\* C29: the network id is checked before anything else on both sides.  A
\* handshake response with a foreign network id and the local peer id is
\* answered WrongNetwork with that id, and a handshake request with a
\* foreign network id is answered None and does not panic, whatever
\* direction is recorded for its address, none included.
C29_NetworkIdFirst ==
    /\ \A response \in Responses :
           (/\ ~LocalNetwork(response)
            /\ response.node_data.peer_id = config.peer_id)
               => Validate(response)
                      = [tag |-> "Ready", result |-> "WrongNetwork",
                         network_id |-> response.node_data.network_id]
    /\ (OnHandshakeRan /\ ~LocalNetwork(last.section))
           => (last.ret = "None" /\ ~panicked)

\* C29 witness: a request with a foreign network id arrived for an address
\* with no recorded direction and was answered None.
C29_Witness ==
    /\ OnHandshakeRan /\ ~LocalNetwork(last.section)
    /\ last.direction = "None"
    /\ last.ret = "None"
    /\ \E response \in Responses :
           /\ ~LocalNetwork(response)
           /\ response.node_data.peer_id = config.peer_id
           /\ Validate(response).result = "WrongNetwork"

\* C26: after the callback of an outbound handshake has run on a response
\* of the local network with a peer id other than the local one, every
\* address the response advertises is in the Peerlist, unless the Peerlist
\* is full, and a full Peerlist is not empty.
C26_PeerlistMerged ==
    (/\ last.op = "handshake_response" /\ last.section.valid
     /\ LocalNetwork(last.section)
     /\ last.section.node_data.peer_id # config.peer_id
     /\ last.ret = "done")
        => \/ \A i \in 1..Len(last.section.local_peerlist) :
                 last.section.local_peerlist[i] \in peerlist
           \/ peerlist # {}

\* A Ping, RequestSupportFlags or TimedSync request that decoded has just
\* been handled.
RequestHandled(record) ==
    /\ record.op \in {"ping", "request_support_flags", "timed_sync"}
    /\ record.valid

\* C30: a step that handles a Ping, RequestSupportFlags or TimedSync request
\* whose payload decodes replies, the Ping reply carrying the local peer id,
\* and leaves command_streams, the connection counter and the Peerlist as
\* they were, for a registered address and for one that is not.
C30_RequestsAnswered ==
    [][RequestHandled(last')
          => /\ last'.ret = "Some"
             /\ Len(last'.response) = 1
             /\ last'.op = "ping"
                    => last'.response[1].peer_id = config.peer_id
             /\ ~panicked'
             /\ UNCHANGED <<command_streams, connection_counter, peerlist>>]_vars

\* C30 witness: a TimedSync request has been answered for an address that
\* is not registered, while another address is registered and counted.
C30_Witness ==
    /\ RequestHandled(last) /\ last.op = "timed_sync"
    /\ last.ret = "Some"
    /\ last.addr \notin DOMAIN command_streams
    /\ DOMAIN command_streams # {}
    /\ connection_counter.current_outbound_connections > 0

====
